---- MODULE Spec2Model ----
(***************************************************************************)
(* Model of infinigen_examples/generate_indoors.py: the stage catalog      *)
(* built by default_greedy_stages and the composition driver               *)
(* compose_indoors.  The stage executor (pipeline.RandomStageExecutor),    *)
(* the domain algebra (reasoning.Domain), the assignment enumeration       *)
(* (greedy.iterate_assignments) and the solver (example_solver.Solver)     *)
(* live outside generate_indoors.py; their behaviour is modelled from the  *)
(* written specification and every such definition is marked so in the     *)
(* model map.                                                              *)
(***************************************************************************)
EXTENDS Integers, Sequences, FiniteSets, TLC

(***************************************************************************)
(* Bounds of the model.                                                    *)
(***************************************************************************)
MaxRooms == 2
MaxObjs == 1
MaxFailures == 1
MaxSeed == 1
MaxRels == 3
DomObjs == 2
MaxEnums == 2

(***************************************************************************)
(* Semantic tags, variable tags and relation kinds.                        *)
(***************************************************************************)
variable_room == "variable_room"
variable_obj == "variable_obj"
all_vars == <<variable_room, variable_obj>>
VariableTags == {variable_room, variable_obj}

RoomTypes == {"Bedroom", "Kitchen"}

NoKey == <<"none", 0>>
RoomKey(i) == <<"room", i>>
ObjKey(i) == <<"obj", i>>
BottleKey == <<"focus_bottle", 0>>

\* A relation predicate: kind "any" is cl.AnyRelation(); the others are the
\* StableAgainst / support predicates the catalog names.  neg marks -P.
Rel(kind) == [neg |-> FALSE, kind |-> kind]
\* Mutant: the minus sign is lost.
NegRelLost(P) == P

NegRel(P) == [P EXCEPT !.neg = ~P.neg]
AnyRelation == Rel("any")
RelKinds == {"floor", "wall", "ceiling", "side", "on", "ontop"}

(***************************************************************************)
(* Domain algebra (reasoning.Domain).                                      *)
(***************************************************************************)
Domain(tags, ntags) == [tags |-> tags, ntags |-> ntags, rels |-> <<>>]

with_relation(D, P, T) == [D EXCEPT !.rels = Append(@, [pred |-> P, target |-> T])]

with_tags(D, tags) == [D EXCEPT !.tags = @ \cup tags]

Unbound == [v \in VariableTags |-> NoKey]

RECURSIVE Matches(_, _, _, _)
\* Entity e of scene (a set of entities) matches Domain D under a binding of
\* the variable tags.  An unbound variable tag admits every entity; a bound
\* one admits only the entity it is bound to.
Matches(e, D, scene, binding) ==
    /\ (D.tags \ VariableTags) \subseteq e.tags
    /\ D.ntags \cap e.tags = {}
    /\ \A v \in D.tags \cap VariableTags : binding[v] = NoKey \/ binding[v] = e.key
    /\ \A i \in 1..Len(D.rels) :
          LET c == D.rels[i]
              has == \E r \in e.rels :
                        /\ c.pred.kind = "any" \/ r.kind = c.pred.kind
                        /\ \E t \in scene : t.key = r.target /\ Matches(t, c.target, scene, binding)
          IN  IF c.pred.neg THEN ~has ELSE has

(***************************************************************************)
(* default_greedy_stages                                                   *)
(***************************************************************************)
on_floor == Rel("floor")
on_wall == Rel("wall")
on_ceiling == Rel("ceiling")
side == Rel("side")
on == Rel("on")
ontop == Rel("ontop")

all_room == Domain({"Room"}, {"Object"})
all_obj == Domain({"Object"}, {"Room"})

all_obj_in_room == with_relation(all_obj, AnyRelation, with_tags(all_room, {variable_room}))
primary == with_relation(all_obj_in_room, NegRel(AnyRelation), all_obj)

stage_rooms == all_room

stage_on_floor == with_relation(primary, on_floor, all_room)

\* Mutant: on_wall without the -on_floor clause.
stage_on_wall_nofloor ==
    with_relation(
        with_relation(primary, NegRel(on_ceiling), all_room),
        on_wall, all_room)

stage_on_wall ==
    with_relation(
        with_relation(
            with_relation(primary, NegRel(on_floor), all_room),
            NegRel(on_ceiling), all_room),
        on_wall, all_room)

stage_on_ceiling ==
    with_relation(
        with_relation(
            with_relation(primary, NegRel(on_floor), all_room),
            on_ceiling, all_room),
        NegRel(on_wall), all_room)

secondary == with_relation(all_obj, AnyRelation, with_tags(primary, {variable_obj}))

stage_side_obj == with_relation(secondary, side, all_obj)
nonside == with_relation(secondary, NegRel(side), all_obj)

\* Mutant: obj_ontop_obj without the -on clause and the -side clause.
stage_obj_ontop_obj_loose == with_relation(secondary, ontop, all_obj)

stage_obj_ontop_obj == with_relation(with_relation(nonside, ontop, all_obj), NegRel(on), all_obj)
stage_obj_on_support == with_relation(with_relation(nonside, on, all_obj), NegRel(ontop), all_obj)

GreedyStageNames ==
    <<"rooms", "on_floor", "on_wall", "on_ceiling", "side_obj", "obj_ontop_obj", "obj_on_support">>

default_greedy_stages ==
    [rooms |-> stage_rooms,
     on_floor |-> stage_on_floor,
     on_wall |-> stage_on_wall,
     on_ceiling |-> stage_on_ceiling,
     side_obj |-> stage_side_obj,
     obj_ontop_obj |-> stage_obj_ontop_obj,
     obj_on_support |-> stage_obj_on_support]

(***************************************************************************)
(* apply_greedy_restriction: every sub-domain carrying the variable tag    *)
(* is narrowed by the filter tags.                                         *)
(***************************************************************************)
RECURSIVE domain_tag_substitute(_, _, _)
domain_tag_substitute(D, var, filter) ==
    [tags |-> IF var \in D.tags THEN D.tags \cup filter ELSE D.tags,
     ntags |-> D.ntags,
     rels |-> [i \in 1..Len(D.rels) |->
                  [pred |-> D.rels[i].pred,
                   target |-> domain_tag_substitute(D.rels[i].target, var, filter)]]]

apply_greedy_restriction(stgs, filter, var) ==
    [k \in DOMAIN stgs |-> domain_tag_substitute(stgs[k], var, filter)]

(***************************************************************************)
(* greedy.iterate_assignments                                              *)
(***************************************************************************)
RECURSIVE FindVarDomain(_, _)
\* The sub-domains of D that carry variable tag v.
FindVarDomain(D, v) ==
    (IF v \in D.tags THEN {D} ELSE {})
        \cup UNION {FindVarDomain(D.rels[i].target, v) : i \in 1..Len(D.rels)}

\* Keys are ordered by kind, then by number.
KindRank(kind) == CASE kind = "room" -> 1 [] kind = "obj" -> 2 [] OTHER -> 3

\* Mutant: the candidates stay in the insertion order of the backing store.
StoreOrder(ks) == ks

RECURSIVE SortedKeys(_)
\* A sequence of keys put in their stable order (by kind, then by number).
SortedKeys(ks) ==
    IF ks = <<>> THEN <<>>
    ELSE LET keys == {ks[i] : i \in DOMAIN ks}
             k == CHOOSE x \in keys :
                    \A y \in keys : (x[1] = y[1] /\ x[2] <= y[2]) \/ KindRank(x[1]) < KindRank(y[1])
         IN  <<k>> \o SortedKeys(SelectSeq(ks, LAMBDA y : y # k))

\* limits: the cap on the candidates considered per variable (NoLimit: none).
\* Over the cap, a sample of that size is taken from the ordered candidates
\* at an offset fixed by the seed.
NoLimit == 0

Sample(cands, limits, seed) ==
    IF limits = NoLimit \/ Len(cands) <= limits THEN cands
    ELSE LET off == seed % Len(cands)
         IN  [i \in 1..limits |-> cands[((off + i - 1) % Len(cands)) + 1]]

\* The keys of the store's entries that match the variable's sub-domain, as
\* the store yields them (insertion order), then ordered and capped.
Candidates(D, sq, v, binding, limits, seed) ==
    LET d == CHOOSE x \in FindVarDomain(D, v) : TRUE
        scene == {sq[i] : i \in DOMAIN sq}
        hits == SelectSeq(sq, LAMBDA x : Matches(x, d, scene, binding))
    IN  Sample(SortedKeys([i \in DOMAIN hits |-> hits[i].key]), limits, seed)

RECURSIVE iterate_from(_, _, _, _, _, _, _)
RECURSIVE iterate_over(_, _, _, _, _, _, _, _)
\* The bindings of the variables vars (in order) that the domain admits
\* against the store sq.  A variable the domain does not mention is left
\* out.  A variable with no candidate ends the enumeration of that branch
\* when nonempty is set and is left unbound otherwise.
iterate_from(D, sq, vars, binding, limits, seed, nonempty) ==
    IF vars = <<>> THEN <<binding>>
    ELSE LET v == Head(vars) IN
         IF FindVarDomain(D, v) = {}
         THEN iterate_from(D, sq, Tail(vars), binding, limits, seed, nonempty)
         ELSE LET cands == Candidates(D, sq, v, binding, limits, seed) IN
              IF cands = <<>>
              THEN IF nonempty THEN <<>>
                   ELSE iterate_from(D, sq, Tail(vars), binding, limits, seed, nonempty)
              ELSE iterate_over(D, sq, vars, binding, limits, seed, nonempty, cands)

iterate_over(D, sq, vars, binding, limits, seed, nonempty, cands) ==
    IF cands = <<>> THEN <<>>
    ELSE iterate_from(D, sq, Tail(vars),
                      [binding EXCEPT ![Head(vars)] = Head(cands)], limits, seed, nonempty)
         \o iterate_over(D, sq, vars, binding, limits, seed, nonempty, Tail(cands))

iterate_assignments(D, sq, vars, limits, seed, nonempty) ==
    iterate_from(D, sq, vars, Unbound, limits, seed, nonempty)

(***************************************************************************)
(* Stage executor: per-stage random stream.                                *)
(***************************************************************************)
RngMod == 8

\* Seed of the stage-local stream, from (scene seed, stage name).
int_hash(seed, idx) == (3 * seed + 5 * idx + 1) % RngMod

\* One draw advances the generator.
RngNext(x) == (5 * x + 3) % RngMod


Outcomes == {"RAN", "SKIPPED_CHANCE", "SKIPPED_PREREQ", "FAILED_DEFAULTED"}

(***************************************************************************)
(* compose_indoors: the steps of the driver in source order.  A stage      *)
(* step is one p.run_stage call; the other kinds are statements the        *)
(* driver executes itself, outside any stage.                              *)
(***************************************************************************)
Stage(name, fn, use_chance, prereq, dflt) ==
    [kind |-> "stage", name |-> name, fn |-> fn, use_chance |-> use_chance,
     prereq |-> prereq, dflt |-> dflt]

Stmt(kind) ==
    [kind |-> kind, name |-> kind, fn |-> "", use_chance |-> FALSE,
     prereq |-> "", dflt |-> ""]

Program ==
    << Stage("terrain", "opaque", FALSE, "", "NoneNone"),
       Stage("sky_lighting", "opaque", FALSE, "", "None"),
       Stmt("check_all"),
       Stmt("restrict_solving"),
       Stage("solve_rooms", "solve_rooms", FALSE, "", "None"),
       Stage("solve_large", "solve", FALSE, "", "state"),
       Stmt("solved_rooms"),
       Stage("add_bottle", "add_bottle", FALSE, "", "None"),
       Stage("pose_cameras", "opaque", FALSE, "", "None"),
       Stmt("object_to_follow"),
       Stage("animate_cameras", "opaque", FALSE, "pose_cameras", "None"),
       Stage("populate_intermediate_pholders", "opaque", FALSE, "", "None"),
       Stage("solve_medium", "solve", FALSE, "", "state"),
       Stage("solve_small", "solve", FALSE, "", "state"),
       Stage("populate_assets", "opaque", FALSE, "", "None"),
       Stage("room_doors", "opaque", FALSE, "", "None"),
       Stage("room_windows", "opaque", FALSE, "", "None"),
       Stage("room_stairs", "opaque", FALSE, "", "None"),
       Stage("skirting_floor", "opaque", TRUE, "", "None"),
       Stage("skirting_ceiling", "opaque", TRUE, "", "None"),
       Stage("room_walls", "opaque", FALSE, "", "None"),
       Stage("room_pillars", "opaque", FALSE, "", "None"),
       Stage("room_floors", "opaque", FALSE, "", "None"),
       Stage("room_ceilings", "opaque", FALSE, "", "None"),
       Stmt("to_json"),
       Stage("lights_off", "opaque", TRUE, "", "None"),
       Stage("invisible_room_ceilings", "opaque", FALSE, "", "None"),
       Stage("overhead_cam", "opaque", FALSE, "", "None"),
       Stage("hide_other_rooms", "opaque", FALSE, "", "None"),
       Stage("nature_backdrop", "opaque", FALSE, "terrain", "0"),
       Stmt("topview"),
       Stmt("return") >>

StageIdx == {i \in 1..Len(Program) : Program[i].kind = "stage"}
StageNames == {Program[i].name : i \in StageIdx}
IdxOf(name) == CHOOSE i \in 1..Len(Program) : Program[i].name = name

\* The greedy stages each solve stage iterates, in order, and whether it
\* asks for non-empty bindings.
SolveDomains(name) ==
    CASE name = "solve_large" -> <<"on_floor">>
      [] name = "solve_medium" -> <<"on_wall", "on_ceiling", "side_obj">>
      [] name = "solve_small" -> <<"obj_ontop_obj", "obj_on_support">>

\* Mutant: solve_large enumerates without nonempty=True.
SolveNonemptyNever(name) == FALSE

SolveNonempty(name) == name = "solve_large"

\* The abort_unsatisfied argument each solve stage passes to solve_objects.
AbortArg(name, flag) ==
    IF name = "solve_large" THEN flag ELSE FALSE

(***************************************************************************)
(* State.                                                                  *)
(***************************************************************************)
VARIABLES
    pc,            \* index in Program of the step the driver is at
    status,        \* "running", "returned" or "aborted"
    abortCause,    \* the error that ended an aborted run
    abortStage,    \* the stage whose substituted default raised it, or ""
    outcome,       \* executor: stage name -> "PENDING" or its outcome
    invoked,       \* executor: the stages whose fn was called
    returned,      \* executor: stage name -> "unset", "default" or "result"
    rng,           \* state of the process-wide random generator
    failures,      \* number of collaborator failures so far
    scene_seed,    \* argument scene_seed
    drawn,         \* executor: stage name -> the chance draw and the chance it met
    randomDefined, \* whether the name `random` resolves in the module
    matched,       \* entity key -> the catalog stages whose domain it matches
    terrain,       \* driver variable terrain
    state,         \* driver variable state: "None" or "State" (solver.state)
    bottle,        \* driver variable bottle
    posed,         \* scene_preprocessed, nonroom_objs are bound
    height,        \* driver variable height
    follow,        \* driver variable object_to_follow
    solved_rooms,  \* driver variable solved_rooms (keys)
    stages,        \* driver variable stages (the catalog)
    restricted,    \* restrict_parent_rooms, or {}
    checked,       \* number of checks.check_all calls
    snapshots,     \* number of state.to_json calls
    solverCalls,   \* number of solver.solve_rooms / solve_objects calls
    objs,          \* solver.state.objs in insertion order
    loop,          \* the assignment loop a solve stage is in
    calls,         \* solve_objects calls in progress
    log,           \* commits of solve_objects, in order
    lastCall       \* the solve_objects call that finished last

ctlVars == <<pc, status, abortCause, abortStage>>
execVars == <<outcome, invoked, returned, drawn, rng, failures>>
argVars == <<scene_seed, randomDefined, matched>>
drvVars == <<terrain, state, bottle, posed, height, follow, solved_rooms>>
catVars == <<stages, restricted, checked>>
solVars == <<snapshots, solverCalls, objs, loop, calls, log, lastCall>>
vars == <<ctlVars, execVars, argVars, drvVars, catVars, solVars>>

Seeds == 0..MaxSeed
ChanceLevels == {2, RngMod - 1}
SupportedSeq == <<"Bedroom", "LivingRoom", "Kitchen", "Bathroom", "DiningRoom">>

Range(f) == {f[i] : i \in DOMAIN f}
Keys(sq) == {sq[i].key : i \in DOMAIN sq}
NumObjs(sq) == Cardinality({i \in DOMAIN sq : sq[i].key[1] = "obj"})

IdleLoop ==
    [active |-> FALSE, name |-> "", doms |-> <<>>, bindings |-> <<>>, i |-> 0, flag |-> FALSE]
NoDraw == [u |-> -1, chance |-> -1]
NoCall ==
    [stage |-> "", i |-> 0, abort |-> FALSE, result |-> "", before |-> <<>>, after |-> <<>>]

Init ==
    /\ pc = 1
    /\ status = "running"
    /\ abortCause = ""
    /\ abortStage = ""
    /\ outcome = [n \in StageNames |-> "PENDING"]
    /\ invoked = {}
    /\ returned = [n \in StageNames |-> "unset"]
    /\ scene_seed \in Seeds
    /\ rng = scene_seed % RngMod
    /\ failures = 0
    /\ drawn = [n \in StageNames |-> NoDraw]
    /\ randomDefined \in BOOLEAN
    /\ matched = <<>>
    /\ terrain = "unset"
    /\ state = "unset"
    /\ bottle = "unset"
    /\ posed = FALSE
    /\ height = "unset"
    /\ follow = "unset"
    /\ solved_rooms = <<>>
    /\ stages = <<>>
    /\ restricted = {}
    /\ checked = 0
    /\ snapshots = 0
    /\ solverCalls = 0
    /\ objs = <<>>
    /\ loop = IdleLoop
    /\ calls = {}
    /\ log = <<>>
    /\ lastCall = NoCall

(***************************************************************************)
(* RandomStageExecutor.run_stage                                           *)
(***************************************************************************)
\* Mutants of Step: a dependent stage called without its prereq; two stages
\* run under one name; a chance stage called with use_chance=False;
\* check_all called only after solve_rooms.
StepNoPrereq(i) == [Program[i] EXCEPT !.prereq = ""]
StepDupName(i) ==
    IF Program[i].name = "skirting_ceiling"
    THEN [Program[i] EXCEPT !.name = "skirting_floor"] ELSE Program[i]
StepNoChance(i) == [Program[i] EXCEPT !.use_chance = FALSE]
StepCheckLate(i) ==
    CASE Program[i].name = "check_all" -> Program[i + 2]
      [] Program[i].name = "solve_rooms" -> Program[i - 2]
      [] OTHER -> Program[i]

\* Mutant of Step: solve_small is called before solve_medium.
StepSmallFirst(i) ==
    CASE Program[i].name = "solve_medium" -> Program[i + 1]
      [] Program[i].name = "solve_small" -> Program[i - 1]
      [] OTHER -> Program[i]

\* Mutant of Step: the snapshot is written where solve_medium is called, and
\* solve_medium runs where the snapshot is written.
StepJsonEarly(i) ==
    CASE Program[i].name = "solve_medium" -> Program[IdxOf("to_json")]
      [] Program[i].name = "to_json" -> Program[IdxOf("solve_medium")]
      [] OTHER -> Program[i]

\* Mutant of Step: every stage is called with use_chance left at its default.
StepAllChance(i) ==
    IF Program[i].kind = "stage" THEN [Program[i] EXCEPT !.use_chance = TRUE] ELSE Program[i]

\* Mutant of Step: the solve stages are called without default=state.
StepNoDefault(i) ==
    IF Program[i].fn = "solve" THEN [Program[i] EXCEPT !.dflt = "None"] ELSE Program[i]

Step(i) == Program[i]
Cur == Step(pc)
AtStage == status = "running" /\ Cur.kind = "stage" /\ ~loop.active
AtStmt(kind) == status = "running" /\ Cur.kind = kind

ShouldSkipPrereq(s) == s.prereq # "" /\ outcome[s.prereq] # "RAN"

\* The stage-local stream: seeded by (scene seed, stage name).  The stage's
\* chance draw and whatever fn draws come from it; the process-wide
\* generator rng is left as it was.
StageStream(s) == int_hash(scene_seed, IdxOf(s.name))

ChanceDraw(s) == RngNext(StageStream(s))
ShouldSkipChance(s, chance) == s.use_chance /\ ChanceDraw(s) > chance
WillRun(s, chance) == ~ShouldSkipPrereq(s) /\ ~ShouldSkipChance(s, chance)

\* The values params[name + '_chance'] can have (one level for all the
\* stages of a run).
Chances(s) ==
    IF ~s.use_chance THEN {RngMod - 1}
    ELSE IF \E n \in StageNames : drawn[n].chance # -1
         THEN {drawn[n].chance : n \in {m \in StageNames : drawn[m].chance # -1}}
         ELSE ChanceLevels
DrawOf(s, chance) == IF s.use_chance THEN [u |-> ChanceDraw(s), chance |-> chance] ELSE NoDraw


\* The driver's assignment of what run_stage returned (val is "default" or
\* "result"; b is the value add_bottle_to_scene returned).
Bind(name, val, b) ==
    /\ terrain' = IF name = "terrain"
                  THEN (IF val = "result" THEN "Terrain" ELSE "None") ELSE terrain
    /\ state' = CASE name = "solve_rooms" -> (IF val = "result" THEN "State" ELSE "None")
                  [] name \in {"solve_large", "solve_medium", "solve_small"} ->
                        (IF val = "result" THEN "State"
                         ELSE IF Cur.dflt = "state" THEN state ELSE "None")
                  [] OTHER -> state
    /\ bottle' = IF name = "add_bottle"
                 THEN (IF val = "result" THEN b ELSE "None") ELSE bottle
    /\ posed' = IF name = "pose_cameras" THEN val = "result" ELSE posed
    /\ height' = IF name = "nature_backdrop"
                 THEN (IF val = "result" THEN "computed" ELSE "0") ELSE height
    /\ UNCHANGED <<follow, solved_rooms>>
    /\ IF name = "pose_cameras" /\ val = "default"
       THEN /\ status' = "aborted"
            /\ abortCause' = "TypeError"
            /\ abortStage' = name
            /\ pc' = pc
       ELSE /\ pc' = pc + 1
            /\ UNCHANGED <<status, abortCause, abortStage>>

Finish(s, oc, val, b, inv, r, f, dr) ==
    /\ outcome' = [outcome EXCEPT ![s.name] = oc]
    /\ drawn' = [drawn EXCEPT ![s.name] = dr]
    /\ returned' = [returned EXCEPT ![s.name] = val]
    /\ invoked' = IF inv THEN invoked \cup {s.name} ELSE invoked
    /\ rng' = r
    /\ failures' = f
    /\ Bind(s.name, val, b)

StageSkipPrereq ==
    /\ AtStage
    /\ ShouldSkipPrereq(Cur)
    /\ Finish(Cur, "SKIPPED_PREREQ", "default", "None", FALSE, rng, failures, NoDraw)
    /\ UNCHANGED <<argVars, catVars, solVars>>

StageSkipChance ==
    /\ AtStage
    /\ ~ShouldSkipPrereq(Cur)
    /\ \E chance \in Chances(Cur) :
          /\ ShouldSkipChance(Cur, chance)
          /\ Finish(Cur, "SKIPPED_CHANCE", "default", "None", FALSE, rng, failures,
                    DrawOf(Cur, chance))
    /\ UNCHANGED <<argVars, catVars, solVars>>

\* fn is a collaborator that returns normally.
StageRun ==
    /\ AtStage
    /\ Cur.fn = "opaque"
    /\ \E chance \in Chances(Cur) :
          /\ WillRun(Cur, chance)
          /\ Finish(Cur, "RAN", "result", "None", TRUE, rng, failures,
                    DrawOf(Cur, chance))
    /\ UNCHANGED <<argVars, catVars, solVars>>

\* fn is a collaborator that raises.
StageFail ==
    /\ AtStage
    /\ Cur.fn \in {"opaque", "solve_rooms"}
    /\ failures < MaxFailures
    /\ \E chance \in Chances(Cur) :
          /\ WillRun(Cur, chance)
          /\ Finish(Cur, "FAILED_DEFAULTED", "default", "None", TRUE,
                    rng, failures + 1, DrawOf(Cur, chance))
    /\ UNCHANGED <<argVars, catVars, solVars>>

(***************************************************************************)
(* Statements of compose_indoors outside any stage.                        *)
(***************************************************************************)
Abort(cause, stg) ==
    /\ status' = "aborted"
    /\ abortCause' = cause
    /\ abortStage' = stg
    /\ pc' = pc

Goon ==
    /\ pc' = pc + 1
    /\ UNCHANGED <<status, abortCause, abortStage>>

\* consgraph = home_constraints(); stages = default_greedy_stages();
\* checks.check_all(consgraph, stages, all_vars)
CheckAll ==
    /\ AtStmt("check_all")
    /\ stages' = default_greedy_stages
    /\ checked' = checked + 1
    /\ \E ok \in BOOLEAN :
          IF ok THEN Goon ELSE Abort("ConfigurationError", "")
    /\ UNCHANGED <<restricted, execVars, argVars, drvVars, solVars>>

\* stages, consgraph, limits = restrict_solving(stages, consgraph), then
\* the restrict_single_supported_roomtype branch.
RestrictSolving ==
    /\ AtStmt("restrict_solving")
    /\ \E restrict_single_supported_roomtype \in BOOLEAN :
       IF restrict_single_supported_roomtype
       THEN LET draw == RngNext(rng)
                choice == SupportedSeq[(draw % Len(SupportedSeq)) + 1]
            IN  /\ rng' = draw
                /\ restricted' = {choice}
                /\ stages' = apply_greedy_restriction(stages, {choice}, variable_room)
       ELSE UNCHANGED <<rng, restricted, stages>>
    /\ Goon
    /\ UNCHANGED <<checked, outcome, invoked, returned, drawn, failures, argVars, drvVars, solVars>>

\* solved_rooms, solved_bbox, house_bbox
SolvedRooms ==
    /\ AtStmt("solved_rooms")
    /\ IF state = "None"
       THEN Abort("AttributeError", "solve_rooms") /\ UNCHANGED solved_rooms
       ELSE LET bs == iterate_assignments(stages.on_floor, objs, <<variable_room>>, NoLimit, scene_seed, FALSE)
            IN  IF \E i \in 1..Len(bs) : bs[i][variable_room] = NoKey
                THEN Abort("KeyError", "") /\ UNCHANGED solved_rooms
                ELSE /\ solved_rooms' = [i \in 1..Len(bs) |-> bs[i][variable_room]]
                     /\ Goon
    /\ UNCHANGED <<terrain, state, bottle, posed, height, follow>>
    /\ UNCHANGED <<execVars, argVars, catVars, solVars>>

\* object_to_follow
ObjectToFollow ==
    /\ AtStmt("object_to_follow")
    /\ \E focus_on_bottle \in BOOLEAN :
       IF focus_on_bottle /\ bottle # "None"
       THEN follow' = bottle /\ Goon
       ELSE \E small \in SUBSET {e \in Range(objs) : "Room" \notin e.tags} :
               IF small = {}
               THEN follow' = "None" /\ Goon
               ELSE IF randomDefined
                    THEN follow' = "Object" /\ Goon
                    ELSE Abort("NameError", "") /\ UNCHANGED follow
    /\ UNCHANGED <<terrain, state, bottle, posed, height, solved_rooms>>
    /\ UNCHANGED <<execVars, argVars, catVars, solVars>>

\* state.to_json(output_folder / 'solve_state.json')
ToJson ==
    /\ AtStmt("to_json")
    /\ snapshots' = snapshots + 1
    /\ Goon
    /\ UNCHANGED <<solverCalls, objs, loop, calls, log, lastCall>>
    /\ UNCHANGED <<execVars, argVars, drvVars, catVars>>

\* the topview branch; bpy.contexScene is no attribute of bpy
Topview ==
    /\ AtStmt("topview")
    /\ \E topview \in BOOLEAN :
          IF topview THEN Abort("AttributeError", "") ELSE Goon
    /\ UNCHANGED <<execVars, argVars, drvVars, catVars, solVars>>

Return ==
    /\ AtStmt("return")
    /\ status' = "returned"
    /\ UNCHANGED <<pc, abortCause, abortStage>>
    /\ UNCHANGED <<execVars, argVars, drvVars, catVars, solVars>>

(***************************************************************************)
(* Stage functions of compose_indoors.                                     *)
(***************************************************************************)
Room(i, type) == [key |-> RoomKey(i), tags |-> {"Room", type}, rels |-> {}]

\* solve_rooms: solver.solve_rooms(scene_seed, consgraph, stages['rooms'])
SolveRooms ==
    /\ AtStage
    /\ Cur.fn = "solve_rooms"
    /\ WillRun(Cur, RngMod - 1)
    /\ \E n \in 1..MaxRooms : \E types \in [1..n -> RoomTypes] :
          objs' = [i \in 1..n |-> Room(i, types[i])]
    /\ solverCalls' = solverCalls + 1
    /\ Finish(Cur, "RAN", "result", "None", TRUE, rng, failures, NoDraw)
    /\ UNCHANGED <<snapshots, loop, calls, log, lastCall, argVars, catVars>>

FocusBottle == [key |-> BottleKey, tags |-> {"Bottle", "FocusObject"}, rels |-> {}]

\* add_bottle_to_scene(state)
AddBottle ==
    /\ AtStage
    /\ Cur.fn = "add_bottle"
    /\ WillRun(Cur, RngMod - 1)
    /\ LET surfaces == {e \in Range(objs) : "Table" \in e.tags \/ "Surface" \in e.tags}
       IN  IF surfaces = {}
           THEN /\ Finish(Cur, "RAN", "result", "None", TRUE, rng, failures, NoDraw)
                /\ UNCHANGED objs
           ELSE IF ~randomDefined
                THEN /\ Finish(Cur, "FAILED_DEFAULTED", "default", "None", TRUE, rng, failures, NoDraw)
                     /\ UNCHANGED objs
                ELSE /\ Finish(Cur, "RAN", "result", "FocusBottle", TRUE,
                               rng, failures, NoDraw)
                     /\ objs' = Append(objs, FocusBottle)
    /\ UNCHANGED <<snapshots, solverCalls, loop, calls, log, lastCall, argVars, catVars>>

PrimaryStages == {"on_floor", "on_wall", "on_ceiling"}

RelKindOf(stage) ==
    CASE stage = "on_floor" -> "floor"
      [] stage = "on_wall" -> "wall"
      [] stage = "on_ceiling" -> "ceiling"
      [] stage = "side_obj" -> "side"
      [] stage = "obj_ontop_obj" -> "ontop"
      [] stage = "obj_on_support" -> "on"

\* The entity a call binds its placement to.
TargetOf(c) ==
    IF c.stage \in PrimaryStages THEN c.vars[variable_room] ELSE c.vars[variable_obj]

NewEntity(sq, c, extra) ==
    [key |-> ObjKey(NumObjs(sq) + 1),
     tags |-> {"Object"} \cup extra,
     rels |-> {[kind |-> RelKindOf(c.stage), target |-> TargetOf(c)]}]

\* What one solve_objects call can come to: a feasible placement, nothing
\* to place, or no feasible placement within n_steps (an UnsatisfiedError
\* with abort_unsatisfied, a best-effort placement without).
CallResults(sq, c) ==
    {"nothing"}
        \cup (IF NumObjs(sq) < MaxObjs /\ TargetOf(c) # NoKey THEN {"placed"} ELSE {})
        \cup (IF c.abort THEN {"unsat"}
              ELSE IF NumObjs(sq) < MaxObjs /\ TargetOf(c) # NoKey
                   THEN {"besteffort"} ELSE {})

ExtraTags(c) == IF c.stage = "on_floor" THEN {{}, {"Table"}} ELSE {{}}

\* Mutant: the entity is inserted before feasibility is known and stays.
solve_objects_partial(sq, c, res, extra) ==
    IF res \in {"placed", "besteffort", "unsat"} /\ NumObjs(sq) < MaxObjs
    THEN Append(sq, NewEntity(sq, c, extra)) ELSE sq

\* Scene State after the call.
solve_objects(sq, c, res, extra) ==
    IF res \in {"placed", "besteffort"} THEN Append(sq, NewEntity(sq, c, extra)) ELSE sq

\* Mutant: the loop goes on to the next binding before the call returned.
CanStartCallEarly == TRUE

\* The loop body calls solve_objects and waits for it to return.
CanStartCall == calls = {}

Bindings(name, dom) ==
    iterate_assignments(stages[dom], objs, all_vars, NoLimit, scene_seed, SolveNonempty(name))

\* run_stage invokes solve_large / solve_medium / solve_small.
SolveStageEnter ==
    /\ AtStage
    /\ Cur.fn = "solve"
    /\ WillRun(Cur, RngMod - 1)
    /\ state = "State"
    /\ LET doms == SolveDomains(Cur.name)
       IN  \E flag \in BOOLEAN :
              loop' = [active |-> TRUE, name |-> Cur.name, doms |-> doms,
                       bindings |-> Bindings(Cur.name, Head(doms)), i |-> 0, flag |-> flag]
    /\ invoked' = invoked \cup {Cur.name}
    /\ UNCHANGED <<outcome, returned, drawn, rng, failures>>
    /\ UNCHANGED <<snapshots, solverCalls, objs, calls, log, lastCall>>
    /\ UNCHANGED <<ctlVars, argVars, drvVars, catVars>>

\* iterate_assignments on a state that is None raises inside fn.
SolveStageNoState ==
    /\ AtStage
    /\ Cur.fn = "solve"
    /\ WillRun(Cur, RngMod - 1)
    /\ state # "State"
    /\ Finish(Cur, "FAILED_DEFAULTED", "default", "None", TRUE, rng, failures, NoDraw)
    /\ UNCHANGED <<argVars, catVars, solVars>>

InLoop == status = "running" /\ loop.active

SolveBegin ==
    /\ InLoop
    /\ CanStartCall
    /\ loop.i < Len(loop.bindings)
    /\ calls' = calls \cup
          {[stage |-> Head(loop.doms), i |-> loop.i, vars |-> loop.bindings[loop.i + 1],
            abort |-> AbortArg(loop.name, loop.flag), view |-> objs]}
    /\ loop' = [loop EXCEPT !.i = @ + 1]
    /\ solverCalls' = solverCalls + 1
    /\ UNCHANGED <<snapshots, objs, log, lastCall>>
    /\ UNCHANGED <<ctlVars, execVars, argVars, drvVars, catVars>>

\* solve_objects returns.
SolveEnd ==
    /\ InLoop
    /\ \E c \in calls : \E res \in CallResults(objs, c) \ {"unsat"} : \E extra \in ExtraTags(c) :
          /\ objs' = solve_objects(objs, c, res, extra)
          /\ log' = IF objs' # objs
                    THEN Append(log, [stage |-> c.stage, i |-> c.i, key |-> objs'[Len(objs')].key])
                    ELSE log
          /\ lastCall' = [stage |-> c.stage, i |-> c.i, abort |-> c.abort, result |-> res,
                          before |-> c.view, after |-> objs']
          /\ calls' = calls \ {c}
    /\ UNCHANGED <<snapshots, solverCalls, loop>>
    /\ UNCHANGED <<ctlVars, execVars, argVars, drvVars, catVars>>

\* solve_objects raises UnsatisfiedError; it propagates out of fn and the
\* stage's default is substituted.
SolveEndUnsat ==
    /\ InLoop
    /\ \E c \in calls :
          /\ "unsat" \in CallResults(objs, c)
          /\ objs' = solve_objects(objs, c, "unsat", {})
          /\ lastCall' = [stage |-> c.stage, i |-> c.i, abort |-> c.abort,
                          result |-> "UnsatisfiedError",
                          before |-> c.view, after |-> objs']
    /\ calls' = {}
    /\ loop' = IdleLoop
    /\ Finish(Cur, "FAILED_DEFAULTED", "default", "None", FALSE, rng, failures, NoDraw)
    /\ UNCHANGED <<snapshots, solverCalls, log>>
    /\ UNCHANGED <<argVars, catVars>>

\* One for-loop of the stage function is exhausted; the next one starts.
LoopNextDomain ==
    /\ InLoop
    /\ calls = {}
    /\ loop.i = Len(loop.bindings)
    /\ Len(loop.doms) > 1
    /\ loop' = [loop EXCEPT !.doms = Tail(@),
                            !.bindings = Bindings(loop.name, loop.doms[2]),
                            !.i = 0]
    /\ UNCHANGED <<snapshots, solverCalls, objs, calls, log, lastCall>>
    /\ UNCHANGED <<ctlVars, execVars, argVars, drvVars, catVars>>

\* return solver.state
SolveStageReturn ==
    /\ InLoop
    /\ calls = {}
    /\ loop.i = Len(loop.bindings)
    /\ Len(loop.doms) = 1
    /\ loop' = IdleLoop
    /\ lastCall' = NoCall
    /\ Finish(Cur, "RAN", "result", "None", FALSE, rng, failures, NoDraw)
    /\ UNCHANGED <<snapshots, solverCalls, objs, calls, log>>
    /\ UNCHANGED <<argVars, catVars>>

Next ==
    \/ StageSkipPrereq
    \/ StageSkipChance
    \/ StageRun
    \/ StageFail
    \/ CheckAll
    \/ RestrictSolving
    \/ SolveRooms
    \/ SolveStageEnter
    \/ SolveStageNoState
    \/ SolveBegin
    \/ SolveEnd
    \/ SolveEndUnsat
    \/ LoopNextDomain
    \/ SolveStageReturn
    \/ SolvedRooms
    \/ AddBottle
    \/ ObjectToFollow
    \/ ToJson
    \/ Topview
    \/ Return

Spec == Init /\ [][Next]_vars

TypeOK ==
    /\ pc \in 1..Len(Program)
    /\ status \in {"running", "returned", "aborted"}
    /\ \A n \in StageNames : outcome[n] \in Outcomes \cup {"PENDING"}
    /\ invoked \subseteq StageNames
    /\ rng \in 0..(RngMod - 1)
    /\ failures \in 0..MaxFailures
    /\ NumObjs(objs) <= MaxObjs

(***************************************************************************)
(* The catalog applied to scene states: every scene of MaxRooms rooms and  *)
(* DomObjs objects with at most MaxRels relations between them.            *)
(***************************************************************************)
\* The stages of default_greedy_stages() whose domain entity e matches.
StagesMatching(e, scene) ==
    {GreedyStageNames[k] : k \in
        {j \in 1..Len(GreedyStageNames) :
            Matches(e, default_greedy_stages[GreedyStageNames[j]], scene, Unbound)}}

Classify(sq) == [k \in Keys(sq) |-> StagesMatching(CHOOSE e \in Range(sq) : e.key = k, Range(sq))]

NumRels(sq) == Cardinality({<<i, r>> \in (DOMAIN sq) \X [kind : RelKinds, target : Keys(sq)] :
                               r \in sq[i].rels})

BareScene ==
    [i \in 1..(MaxRooms + DomObjs) |->
        IF i <= MaxRooms THEN [key |-> RoomKey(i), tags |-> {"Room"}, rels |-> {}]
        ELSE [key |-> ObjKey(i - MaxRooms), tags |-> {"Object"}, rels |-> {}]]

InitDomain ==
    /\ pc = 1
    /\ status = "idle"
    /\ abortCause = ""
    /\ abortStage = ""
    /\ outcome = [n \in StageNames |-> "PENDING"]
    /\ invoked = {}
    /\ returned = [n \in StageNames |-> "unset"]
    /\ drawn = [n \in StageNames |-> NoDraw]
    /\ scene_seed = 0
    /\ rng = 0
    /\ failures = 0
    /\ randomDefined = FALSE
    /\ terrain = "unset"
    /\ state = "unset"
    /\ bottle = "unset"
    /\ posed = FALSE
    /\ height = "unset"
    /\ follow = "unset"
    /\ solved_rooms = <<>>
    /\ stages = default_greedy_stages
    /\ restricted = {}
    /\ checked = 0
    /\ snapshots = 0
    /\ solverCalls = 0
    /\ objs = BareScene
    /\ matched = Classify(BareScene)
    /\ loop = IdleLoop
    /\ calls = {}
    /\ log = <<>>
    /\ lastCall = NoCall

\* An object of the scene gets one more relation to another entity.
AddRelation ==
    /\ NumRels(objs) < MaxRels
    /\ \E i \in DOMAIN objs : \E kind \in RelKinds : \E t \in Keys(objs) \ {objs[i].key} :
          /\ "Object" \in objs[i].tags
          /\ [kind |-> kind, target |-> t] \notin objs[i].rels
          /\ objs' = [objs EXCEPT ![i].rels = @ \cup {[kind |-> kind, target |-> t]}]
          /\ matched' = Classify(objs')
    /\ UNCHANGED <<scene_seed, randomDefined>>
    /\ UNCHANGED <<snapshots, solverCalls, loop, calls, log, lastCall>>
    /\ UNCHANGED <<ctlVars, execVars, drvVars, catVars>>

NextDomain == AddRelation

SpecDomain == InitDomain /\ [][NextDomain]_vars

(***************************************************************************)
(* greedy.iterate_assignments applied to one scene whose backing store is  *)
(* re-ordered between enumerations.                                        *)
(***************************************************************************)
\* MaxRooms rooms and MaxObjs objects standing on the floor of room 1.
EnumScene ==
    [i \in 1..(MaxRooms + MaxObjs) |->
        IF i <= MaxRooms THEN [key |-> RoomKey(i), tags |-> {"Room"}, rels |-> {}]
        ELSE [key |-> ObjKey(i - MaxRooms), tags |-> {"Object"},
              rels |-> {[kind |-> "floor", target |-> RoomKey(1)]}]]

InitEnum ==
    /\ pc = 1
    /\ status = "idle"
    /\ abortCause = ""
    /\ abortStage = ""
    /\ outcome = [n \in StageNames |-> "PENDING"]
    /\ invoked = {}
    /\ returned = [n \in StageNames |-> "unset"]
    /\ drawn = [n \in StageNames |-> NoDraw]
    /\ scene_seed \in Seeds
    /\ rng = 0
    /\ failures = 0
    /\ randomDefined = FALSE
    /\ terrain = "unset"
    /\ state = "State"
    /\ bottle = "unset"
    /\ posed = FALSE
    /\ height = "unset"
    /\ follow = "unset"
    /\ solved_rooms = <<>>
    /\ stages = default_greedy_stages
    /\ restricted = {}
    /\ checked = 0
    /\ snapshots = 0
    /\ solverCalls = 0
    /\ objs = EnumScene
    /\ matched = <<>>
    /\ loop = IdleLoop
    /\ calls = {}
    /\ log = <<>>
    /\ lastCall = NoCall

\* The backing store holds the same entries in another insertion order.
Reinsert ==
    /\ \E i \in 1..(Len(objs) - 1) :
          objs' = [objs EXCEPT ![i] = objs[i + 1], ![i + 1] = objs[i]]
    /\ UNCHANGED <<snapshots, solverCalls, loop, calls, log, lastCall>>
    /\ UNCHANGED <<ctlVars, execVars, argVars, drvVars, catVars>>

\* One enumeration: list(greedy.iterate_assignments(stages[dom], state,
\* all_vars, limits, nonempty)).
Enumerate ==
    /\ Len(log) < MaxEnums
    /\ \E k \in 1..Len(GreedyStageNames) : \E limits \in {NoLimit, 1} : \E nonempty \in BOOLEAN :
          log' = Append(log,
                    [dom |-> GreedyStageNames[k], limits |-> limits, nonempty |-> nonempty,
                     order |-> [i \in DOMAIN objs |-> objs[i].key],
                     out |-> iterate_assignments(stages[GreedyStageNames[k]], objs, all_vars,
                                                 limits, scene_seed, nonempty)])
    /\ UNCHANGED <<snapshots, solverCalls, objs, loop, calls, lastCall>>
    /\ UNCHANGED <<ctlVars, execVars, argVars, drvVars, catVars>>

NextEnum == Reinsert \/ Enumerate

SpecEnum == InitEnum /\ [][NextEnum]_vars

(***************************************************************************)
(* Properties.                                                             *)
(***************************************************************************)
Decided(n) == outcome[n] # "PENDING"

\* C1: a stage whose prereq stage did not end RAN ends SKIPPED_PREREQ,
\* returns its default and its fn is never invoked: animate_cameras after
\* pose_cameras, nature_backdrop (default 0) after terrain.
C1_PrereqNotRanSkips ==
    \A d \in {<<"animate_cameras", "pose_cameras">>, <<"nature_backdrop", "terrain">>} :
        (Decided(d[1]) /\ outcome[d[2]] # "RAN") =>
            /\ outcome[d[1]] = "SKIPPED_PREREQ"
            /\ returned[d[1]] = "default"
            /\ d[1] \notin invoked
            /\ (d[1] = "nature_backdrop" => height = "0")

C1_Witness ==
    /\ outcome["terrain"] = "FAILED_DEFAULTED"
    /\ outcome["nature_backdrop"] = "SKIPPED_PREREQ"
    /\ height = "0"
    /\ status = "returned"

\* C2: every stage the driver has passed has exactly one of the four
\* outcomes, and an outcome once recorded never changes.
C2_OutcomesTerminal ==
    [][ /\ \A n \in StageNames :
              /\ outcome'[n] \in Outcomes \cup {"PENDING"}
              /\ outcome[n] # "PENDING" => outcome'[n] = outcome[n]
        /\ \A i \in StageIdx : i < pc' => outcome'[Program[i].name] \in Outcomes ]_vars

C2_Witness ==
    /\ outcome["terrain"] = "FAILED_DEFAULTED"
    /\ outcome["skirting_floor"] = "SKIPPED_CHANCE"
    /\ outcome["nature_backdrop"] = "SKIPPED_PREREQ"
    /\ outcome["lights_off"] = "RAN"
    /\ status = "returned"

ChanceStages == {"skirting_floor", "skirting_ceiling", "lights_off"}

C4_NoDefaultWhenValidationFails ==
    /\ checked <= 1
    /\ solverCalls > 0 => checked = 1
    /\ abortCause = "ConfigurationError" =>
          /\ solverCalls = 0
          /\ \A n \in StageNames : returned[n] # "default"

\* C4 as amended: check_all runs once, on the built catalog, before any
\* solver call; when it fails no solver call is made and no stage runs
\* afterwards -- only terrain and sky_lighting, which run before it, can
\* have been given their default.
C4_ValidationBeforeSolving ==
    /\ checked <= 1
    /\ checked = 1 => stages # <<>>
    /\ solverCalls > 0 => checked = 1 /\ abortCause # "ConfigurationError"
    /\ abortCause = "ConfigurationError" =>
          /\ status = "aborted"
          /\ solverCalls = 0
          /\ \A n \in StageNames \ {"terrain", "sky_lighting"} : outcome[n] = "PENDING"

C4_Witness ==
    /\ abortCause = "ConfigurationError"
    /\ outcome["terrain"] = "FAILED_DEFAULTED"
    /\ returned["terrain"] = "default"

StageOrder(d) == CHOOSE k \in 1..Len(GreedyStageNames) : GreedyStageNames[k] = d
Before(s1, i1, s2, i2) ==
    StageOrder(s1) < StageOrder(s2) \/ (s1 = s2 /\ i1 < i2)

C8_DefaultedRunCompletes ==
    \A n \in StageNames :
        returned[n] = "default" => ~(status = "aborted" /\ abortStage = n)

RoomCandidates ==
    {e.key : e \in {x \in Range(objs) : "Room" \in x.tags /\ restricted \subseteq x.tags}}

\* C10: every binding solve_large enumerates (nonempty=True) binds the room
\* variable to a candidate; with no candidate there is no binding, no
\* solve_objects call, and solve_large returns the state (RAN).
C10_NonemptyBindings ==
    /\ loop.active /\ loop.name = "solve_large" =>
          /\ \A j \in 1..Len(loop.bindings) :
                loop.bindings[j][variable_room] \in RoomCandidates
          /\ RoomCandidates = {} => loop.bindings = <<>>
    /\ \A c \in calls : c.stage = "on_floor" => c.vars[variable_room] \in RoomCandidates
    /\ (status = "running" /\ Cur.name = "solved_rooms"
            /\ "solve_large" \in invoked /\ state = "State" /\ RoomCandidates = {}) =>
          /\ outcome["solve_large"] = "RAN"
          /\ returned["solve_large"] = "result"
          /\ solverCalls = 1
          /\ log = <<>>

C10_Witness ==
    /\ status = "running"
    /\ Cur.name = "solved_rooms"
    /\ restricted # {}
    /\ RoomCandidates = {}
    /\ outcome["solve_large"] = "RAN"

C10_WitnessBound ==
    /\ restricted # {}
    /\ \E c \in calls : c.stage = "on_floor"

HasRel(e, kind) == \E r \in e.rels : r.kind = kind /\ r.target[1] = "room"

\* C5: in every scene no entity matches two of on_floor, on_wall and
\* on_ceiling: one that matches on_floor matches neither on_wall nor
\* on_ceiling, one that matches on_wall does not match on_ceiling.
C5_PrimaryStagesExclusive ==
    \A e \in Range(objs) :
        /\ matched[e.key] = StagesMatching(e, Range(objs))
        /\ "on_floor" \in matched[e.key] =>
              "on_wall" \notin matched[e.key] /\ "on_ceiling" \notin matched[e.key]
        /\ "on_wall" \in matched[e.key] => "on_ceiling" \notin matched[e.key]

C5_Witness ==
    \E e \in Range(objs) :
        /\ HasRel(e, "floor") /\ HasRel(e, "wall")
        /\ matched[e.key] = {"on_floor"}

C5_WitnessWall ==
    \E e \in Range(objs) : matched[e.key] = {"on_wall"}

\* Two enumerations made with the same arguments.
SameCall(a, b) == a.dom = b.dom /\ a.limits = b.limits /\ a.nonempty = b.nonempty

C11_WitnessCapped ==
    \E j, k \in 1..Len(log) :
        /\ j < k
        /\ SameCall(log[j], log[k])
        /\ log[j].limits # NoLimit
        /\ log[j].order[1] # log[k].order[1]
        /\ Len(log[j].out) = 1
        /\ log[j].dom = "on_floor"

\* C12: every solve_objects call of a granularity level is made with
\* abort_unsatisfied equal to that level's override flag (loop.flag is the
\* flag of the level whose stage function is executing).
C12_AbortFlagHonoured ==
    \A c \in calls : loop.active => c.abort = loop.flag

Decoration ==
    {"populate_assets", "room_doors", "room_windows", "room_stairs", "skirting_floor",
     "skirting_ceiling", "room_walls", "room_pillars", "room_floors", "room_ceilings",
     "lights_off", "invisible_room_ceilings"}

Started(n) == Decided(n) \/ n \in invoked

\* The groups as the claim orders them: camera setup last.
ClaimedGroups ==
    << {"terrain"}, {"sky_lighting"}, {"solve_rooms"}, {"solve_large"}, {"solve_medium"},
       {"solve_small"}, Decoration, {"pose_cameras", "animate_cameras", "overhead_cam"} >>

\* The groups as compose_indoors runs them: the cameras are posed and
\* animated between solve_large and solve_medium.
RunGroups ==
    << {"terrain"}, {"sky_lighting"}, {"solve_rooms"}, {"solve_large"},
       {"pose_cameras", "animate_cameras"}, {"solve_medium"}, {"solve_small"},
       Decoration, {"overhead_cam"} >>

InOrder(groups) ==
    \A g, h \in 1..Len(groups) : \A a \in groups[g] : \A b \in groups[h] :
        (g < h /\ Started(b)) => Decided(a)

\* C13 as claimed: terrain, lighting, room solving, solve_large,
\* solve_medium, solve_small, decoration, camera setup -- every stage of a
\* group is decided before a stage of the next group starts.
C13_GroupOrderCameraLast == InOrder(ClaimedGroups)

\* C13 as amended: terrain, lighting, room solving, solve_large, camera
\* posing and animation, solve_medium, solve_small, decoration, overhead
\* camera -- every stage of a group is decided before a stage of the next
\* group starts.
C13_GroupOrder == InOrder(RunGroups)

C13_Witness ==
    /\ status = "returned"
    /\ outcome["pose_cameras"] = "RAN"
    /\ outcome["animate_cameras"] = "RAN"
    /\ outcome["solve_medium"] = "RAN"
    /\ outcome["solve_small"] = "RAN"
    /\ outcome["room_ceilings"] = "RAN"
    /\ Len(log) >= 1

SolveStages == {"solve_rooms", "solve_large", "solve_medium", "solve_small"}

\* C14: the snapshot is written at most once, only after solve_rooms,
\* solve_large, solve_medium and solve_small are all decided, exactly once
\* in a run that reaches the end, and Scene State does not change once it
\* is written.
C14_SnapshotOnceAfterSolving ==
    [][ /\ snapshots' <= 1
        /\ snapshots' = 1 =>
              /\ \A n \in SolveStages : outcome'[n] \in Outcomes
              /\ ~loop'.active
              /\ calls' = {}
        /\ status' = "returned" => snapshots' = 1
        /\ snapshots = 1 => (objs' = objs /\ snapshots' = 1) ]_vars

C14_Witness ==
    /\ status = "returned"
    /\ snapshots = 1
    /\ \E j \in 1..Len(log) : log[j].stage \in {"on_wall", "on_ceiling"}
    /\ outcome["solve_small"] = "RAN"

\* The Domains, relation predicates and targets default_greedy_stages
\* combines.
SourceDomains == {all_room, all_obj, all_obj_in_room, primary, secondary, nonside}
Predicates == {Rel(k) : k \in RelKinds \cup {"any"}}
Targets == {all_room, all_obj}

MatchSet(D) == {e \in Range(objs) : Matches(e, D, Range(objs), Unbound)}

StageLocalChoice(name) ==
    SupportedSeq[(RngNext(int_hash(scene_seed, IdxOf(name))) % Len(SupportedSeq)) + 1]

\* C16: the room type chosen under restrict_single_supported_roomtype is
\* the one drawn from the generator seeded by (scene seed, step name), not
\* one drawn from the process-wide generator.
C16_ChoicesFromStageStream ==
    restricted # {} => restricted = {StageLocalChoice("restrict_solving")}

SecondaryStages == {"side_obj", "obj_ontop_obj", "obj_on_support"}

\* C17: in every scene side_obj, obj_ontop_obj and obj_on_support are
\* pairwise disjoint, and an entity matching one of them matches neither a
\* primary stage (on_floor, on_wall, on_ceiling) nor the rooms stage.
C17_SecondaryStagesExclusive ==
    \A e \in Range(objs) :
        LET m == StagesMatching(e, Range(objs))
        IN  /\ Cardinality(m \cap SecondaryStages) <= 1
            /\ m \cap SecondaryStages # {} => m \cap (PrimaryStages \cup {"rooms"}) = {}

\* An object with a side and an ontop relation to a primary object, and
\* one with both an on and an ontop relation.
C17_Witness ==
    \E e \in Range(objs) :
        /\ \E r, q \in e.rels : r.kind = "side" /\ q.kind = "ontop" /\ r.target[1] = "obj"
        /\ StagesMatching(e, Range(objs)) = {"side_obj"}

C17_WitnessOntop ==
    \E e \in Range(objs) : StagesMatching(e, Range(objs)) = {"obj_ontop_obj"}

\* C18: the function of solve_large, solve_medium or solve_small is
\* invoked, and a solve_objects call is made, only in a run whose
\* solve_rooms stage ended RAN.
C18_SolvingOnlyAfterRooms ==
    /\ \A n \in SolveStages \ {"solve_rooms"} :
          n \in invoked => outcome["solve_rooms"] = "RAN"
    /\ calls # {} => outcome["solve_rooms"] = "RAN"

\* C19: a stage called with use_chance=False never ends SKIPPED_CHANCE, and
\* its function is invoked whenever it has no prereq or its prereq ended
\* RAN; only skirting_floor, skirting_ceiling and lights_off are called
\* with use_chance left True.
C19_NoChanceSkipWithoutUseChance ==
    \A i \in StageIdx :
        LET s == Program[i]
        IN  /\ s.use_chance <=> s.name \in ChanceStages
            /\ ~s.use_chance =>
                  /\ outcome[s.name] # "SKIPPED_CHANCE"
                  /\ (Decided(s.name) /\ (s.prereq = "" \/ outcome[s.prereq] = "RAN")) =>
                        s.name \in invoked

C19_Witness ==
    /\ status = "returned"
    /\ \E n \in ChanceStages : outcome[n] = "SKIPPED_CHANCE"
    /\ \A n \in StageNames \ ChanceStages : n \in invoked
    /\ outcome["terrain"] = "RAN"
    /\ outcome["nature_backdrop"] = "RAN"
    /\ "nature_backdrop" \in invoked

\* C20: the catalog the solver is called with is the one check_all
\* checked: it is not replaced or modified between check_all and the first
\* solver call.
C20_SolverGetsCheckedCatalog ==
    solverCalls > 0 => stages = default_greedy_stages

ObjectSolveStages == {"solve_large", "solve_medium", "solve_small"}

\* C21: when solve_large, solve_medium or solve_small is decided with an
\* outcome other than RAN the driver's state is the one it held before the
\* stage (a State is never replaced by None); when it is decided RAN the
\* driver's state is the solver's state.
C21_DefaultKeepsState ==
    [][ \A n \in ObjectSolveStages :
            (outcome[n] = "PENDING" /\ outcome'[n] # "PENDING") =>
                /\ outcome'[n] # "RAN" => (state' = state /\ returned'[n] = "default")
                /\ outcome'[n] = "RAN" => (state' = "State" /\ returned'[n] = "result") ]_vars

C21_Witness ==
    /\ outcome["solve_large"] = "FAILED_DEFAULTED"
    /\ returned["solve_large"] = "default"
    /\ state = "State"
    /\ outcome["solve_medium"] = "RAN"
    /\ Len(log) >= 1

====
